---- MODULE Spec2Model ----
(***************************************************************************)
(* A model of the B-link tree of src/main/main.cc: class Node (FindIndex,  *)
(* Split, InsertSafe, Scannode, IsSafe, Contains, MoveRight, SplitVec) and *)
(* class Tree (Insert and the recursive Insert).                           *)
(*                                                                         *)
(* Threads call Tree::Insert concurrently.  Every statement that touches   *)
(* shared state (a latch, a node field, the root pointer) is a step of its *)
(* own.  Where the code has undefined behaviour the model takes every      *)
(* outcome a build can produce as a nondeterministic choice:               *)
(*   - an out-of-bounds read of keys_ or children_ either stops the        *)
(*     process (pc = "crashed") or yields an arbitrary value;              *)
(*   - locking a std::mutex the thread already owns either blocks the      *)
(*     thread for ever (pc = "stuck") or goes on as if acquired;           *)
(*   - std::stack::top/pop on an empty stack either stops the process or   *)
(*     yields an arbitrary node pointer.                                   *)
(***************************************************************************)
EXTENDS Integers, Sequences, FiniteSets, TLC

\* ------------------------------------------------------------------ bounds
NumThreads == 2
MaxKey == 3
\* calls of Insert in a run; a run whose calls so far were made one after
\* the other may make one call more
MaxOps == 2
MaxNodes == 5
MaxOrder == 2
\* Tree::Tree(): min_order_{2}
DefaultOrder == 2
MaxLen == 3
SizeBits == 6

Threads == 1..NumThreads
Keys == 1..MaxKey
NodeIds == 1..MaxNodes
Orders == 1..MaxOrder

\* nullptr
Null == 0
\* the marker of an undefined outcome of a pure function
UB == 0 - 1
\* size_t arithmetic is modulo 2^w; w is scaled down to SizeBits
SizeMod == 2 ^ SizeBits

\* ------------------------------------------------------------- Node (pure)

\* the loop of FindIndex: start is an int, end and mid are size_t
RECURSIVE FindLoop(_, _, _, _)
FindLoop(ks, key, start, end) ==
    IF start <= end
    THEN LET mid == ((start + end) % SizeMod) \div 2 IN
         IF mid >= Len(ks) THEN UB
         ELSE IF ks[mid + 1] = key THEN mid
         ELSE IF ks[mid + 1] < key THEN FindLoop(ks, key, mid + 1, end)
         ELSE FindLoop(ks, key, start, (mid - 1) % SizeMod)
    ELSE (end + 1) % SizeMod

FindIndex(ks, key) == FindLoop(ks, key, 0, (Len(ks) - 1) % SizeMod)

\* what a call of FindIndex can return: its value, or after an out-of-bounds
\* read any index (UB stands for the process stopping in the read)
FindIndexOut(ks, key) ==
    IF FindIndex(ks, key) = UB THEN (0..Len(ks)) \cup {UB}
    ELSE {FindIndex(ks, key)}

\* Contains, given the index FindIndex returned: "true", "false"; after an
\* undefined FindIndex either answer or a stop
ContainsOut(ks, key) ==
    IF FindIndex(ks, key) = UB THEN {"true", "false", "crash"}
    ELSE LET index == FindIndex(ks, key) IN
         IF index = Len(ks) THEN {"false"}
         ELSE IF ks[index + 1] = key THEN {"true"} ELSE {"false"}

\* a variant of IsSafe that lets any node below 2 * order keys take a key
IsSafeBelowFull(ks, order) == Len(ks) < 2 * order

\* lines 214-216: keys_.size() > min_order_ && keys_.size() < 2 * min_order_
IsSafe(ks, order) == Len(ks) > order /\ Len(ks) < 2 * order

\* a variant of the midpoint that rounds down
SplitMidFloor(n) == n \div 2

\* line 273: mid = size / 2, plus one when size is odd
SplitMid(n) == IF n % 2 = 0 THEN n \div 2 ELSE n \div 2 + 1

SplitVec(vec) ==
    LET mid == SplitMid(Len(vec)) IN
    <<SubSeq(vec, 1, mid), SubSeq(vec, mid + 1, Len(vec))>>

\* keys_.insert(keys_.begin() + insert_at, key)
InsertAt(ks, at, key) == SubSeq(ks, 1, at) \o <<key>> \o SubSeq(ks, at + 1, Len(ks))

\* the key sequence that stands for the process stopping inside a call
Crash == <<UB>>

\* InsertSafe: the key sequences the call can leave
InsertSafeOut(ks, order, key) ==
    IF ~IsSafe(ks, order) THEN {ks}
    ELSE UNION { IF c = "crash" THEN {Crash}
                 ELSE IF c = "true" THEN {ks}
                 ELSE { IF i = UB THEN Crash ELSE InsertAt(ks, i, key) :
                        i \in FindIndexOut(ks, key) } :
                 c \in ContainsOut(ks, key) }

IsSorted(ks) == \A i \in 1..(Len(ks) - 1) : ks[i] < ks[i + 1]

\* -------------------------------------------------------------------- state
VARIABLES
    nodes,      \* the heap: node id -> its fields
    nalloc,     \* nodes 1..nalloc have been created with new
    min_order,  \* Tree::min_order_
    root,       \* Tree::root_
    tlatch,     \* Tree::latch_: its holder, or 0
    pc,         \* each thread's position in Insert
    key,        \* Insert's argument
    current,    \* Insert's local current
    anc_stack,  \* Insert's local anc_stack
    mrcur,      \* MoveRight's parameter current
    tv,         \* MoveRight's local t
    mrret,      \* where MoveRight returns to: "top" (line 324), "rec" (line 357)
    old_node,   \* recursive Insert's local old_node
    split,      \* recursive Insert's local split (the SplitResult)
    ops,        \* calls of Insert started so far
    pre,        \* history: the node split last, as it was before Split
    before,     \* history: every node's keys when the thread's call began
    hist,       \* history: the calls that returned, in order
    overlap     \* history: two calls of Insert were in flight together

nodeVars == <<nodes, nalloc, min_order, root, tlatch>>
threadVars == <<pc, key, current, anc_stack, mrcur, tv, mrret, old_node, split, ops>>
histVars == <<pre, before, hist, overlap>>
vars == <<nodeVars, threadVars, histVars>>

\* Node::Node(int min_order)
NewNode == [keys |-> <<>>, children |-> <<>>, leaf |-> TRUE, root |-> FALSE,
            right |-> Null, latch |-> 0]

NoSplit == [left |-> Null, right |-> Null, new_root |-> Null, promoted_key |-> 0]

Allocated == 1..nalloc

\* what an out-of-bounds or otherwise undefined pointer read can yield
GarbagePtr == {Null} \cup Allocated

Running == \A t \in Threads : pc[t] # "crashed"

Quiescent == \A t \in Threads : pc[t] = "idle"

KeysOf == [n \in NodeIds |-> nodes[n].keys]

NoKeys == [n \in NodeIds |-> <<>>]

\* Tree::Tree()
Init ==
    /\ nodes = [n \in NodeIds |-> NewNode]
    /\ nalloc = 0
    /\ min_order = DefaultOrder
    /\ root = Null
    /\ tlatch = 0
    /\ pc = [t \in Threads |-> "idle"]
    /\ key = [t \in Threads |-> 0]
    /\ current = [t \in Threads |-> Null]
    /\ anc_stack = [t \in Threads |-> <<>>]
    /\ mrcur = [t \in Threads |-> Null]
    /\ tv = [t \in Threads |-> Null]
    /\ mrret = [t \in Threads |-> "top"]
    /\ old_node = [t \in Threads |-> Null]
    /\ split = [t \in Threads |-> NoSplit]
    /\ ops = 0
    /\ pre = [t \in Threads |-> NewNode]
    /\ before = [t \in Threads |-> NoKeys]
    /\ hist = <<>>
    /\ overlap = FALSE

\* ----------------------------------------------------------- Node (heap)

\* Scannode on node n: the pointers the call can return (UB: the process
\* stops).  children_[index] past the end of children_ is undefined.
ScannodeOut(n, k) ==
    LET nd == nodes[n] IN
    UNION { IF i = UB THEN {UB}
            ELSE IF i = Len(nd.keys) /\ nd.right # Null THEN {nd.right}
            ELSE IF i < Len(nd.children) THEN {nd.children[i + 1]}
            ELSE GarbagePtr \cup {UB} :
            i \in FindIndexOut(nd.keys, k) }

\* left_half_keys.back(): undefined on an empty half
PromotedOut(low) ==
    IF low = <<>> THEN Keys \cup {UB} ELSE {low[Len(low)]}

\* a variant of the body of Split that leaves the new sibling without the
\* node's old right link
SplitHeapNoLink(nds, n, nr, rt, p) ==
    LET nd == nds[n]
        ks == SplitVec(nd.keys)
        cs == SplitVec(nd.children)
    IN [m \in NodeIds |->
          IF m = n
          THEN [nd EXCEPT !.keys = ks[1],
                          !.children = IF nd.leaf THEN nd.children ELSE cs[1],
                          !.right = nr, !.latch = 0]
          ELSE IF m = nr
          THEN [keys |-> ks[2], children |-> IF nd.leaf THEN <<>> ELSE cs[2],
                leaf |-> nd.leaf, root |-> FALSE, right |-> Null, latch |-> 0]
          ELSE IF m = rt /\ nd.root
          THEN [NewNode EXCEPT !.keys = <<p>>, !.children = <<n, nr>>,
                               !.root = TRUE]
          ELSE nds[m]]

\* the heap after the body of Split on node n: nr is the new right sibling,
\* rt the new root (created only when n is the root), p the promoted key.
\* The lock_guard releases n's latch at the end of Split.
SplitHeap(nds, n, nr, rt, p) ==
    LET nd == nds[n]
        ks == SplitVec(nd.keys)
        cs == SplitVec(nd.children)
        sib == [keys |-> ks[2],
                children |-> IF nd.leaf THEN <<>> ELSE cs[2],
                leaf |-> nd.leaf, root |-> FALSE,
                right |-> nd.right, latch |-> 0]
        me == [nd EXCEPT !.keys = ks[1],
                         !.children = IF nd.leaf THEN nd.children ELSE cs[1],
                         !.right = nr,
                         !.latch = 0]
        top == [NewNode EXCEPT !.keys = <<p>>, !.children = <<n, nr>>,
                               !.root = TRUE]
    IN [m \in NodeIds |->
          IF m = n THEN me
          ELSE IF m = nr THEN sib
          ELSE IF m = rt /\ nd.root THEN top
          ELSE nds[m]]

\* Latch()/lock_guard on node n by thread t: the positions the thread can be
\* at next.  Locking a latch the thread already holds is undefined.
LockOut(n, t, next) ==
    IF nodes[n].latch = t THEN {"stuck", next} ELSE {next}

\* Unlatch(): std::mutex::unlock frees the latch
Unlatched(nds, n) == [nds EXCEPT ![n].latch = 0]

\* --------------------------------------------------------------- Tree

Held(nds, tl, t) == (\E n \in NodeIds : nds[n].latch = t) \/ tl = t

\* return from Insert: the locals die, the call is recorded
Finish(t, ret, kind, nds, tl) ==
    /\ pc' = [pc EXCEPT ![t] = "idle"]
    /\ key' = [key EXCEPT ![t] = 0]
    /\ current' = [current EXCEPT ![t] = Null]
    /\ anc_stack' = [anc_stack EXCEPT ![t] = <<>>]
    /\ mrcur' = [mrcur EXCEPT ![t] = Null]
    /\ tv' = [tv EXCEPT ![t] = Null]
    /\ mrret' = [mrret EXCEPT ![t] = "top"]
    /\ old_node' = [old_node EXCEPT ![t] = Null]
    /\ split' = [split EXCEPT ![t] = NoSplit]
    /\ hist' = Append(hist, [t |-> t, key |-> key[t], ret |-> ret, kind |-> kind,
                             same |-> ([n \in NodeIds |-> nds[n].keys] = before[t]),
                             leak |-> Held(nds, tl, t)])
    /\ pre' = [pre EXCEPT ![t] = NewNode]
    /\ before' = [before EXCEPT ![t] = NoKeys]
    /\ UNCHANGED <<ops, overlap>>

\* the process stops in thread t: every thread ends and the heap is gone
Stop(t) ==
    /\ pc' = [u \in Threads |-> "crashed"]
    /\ nodes' = [n \in NodeIds |-> NewNode]
    /\ nalloc' = 0
    /\ root' = Null
    /\ tlatch' = 0
    /\ key' = [u \in Threads |-> 0]
    /\ current' = [u \in Threads |-> Null]
    /\ anc_stack' = [u \in Threads |-> <<>>]
    /\ mrcur' = [u \in Threads |-> Null]
    /\ tv' = [u \in Threads |-> Null]
    /\ mrret' = [u \in Threads |-> "top"]
    /\ old_node' = [u \in Threads |-> Null]
    /\ split' = [u \in Threads |-> NoSplit]
    /\ pre' = [u \in Threads |-> NewNode]
    /\ before' = [u \in Threads |-> NoKeys]
    /\ hist' = <<>>
    /\ UNCHANGED <<min_order, ops, overlap>>

\* lines 299-305: Insert begins; current = root_
Start(t, k) ==
    /\ pc[t] = "idle" /\ Running
    /\ \/ ops < MaxOps
       \/ ops = MaxOps /\ ~overlap /\ Quiescent
    /\ ops' = ops + 1
    /\ key' = [key EXCEPT ![t] = k]
    /\ current' = [current EXCEPT ![t] = root]
    /\ anc_stack' = [anc_stack EXCEPT ![t] = <<>>]
    /\ pc' = [pc EXCEPT ![t] = IF root = Null THEN "tree_lock" ELSE "descend"]
    /\ before' = [before EXCEPT ![t] = KeysOf]
    /\ overlap' = (overlap \/ \E u \in Threads \ {t} : pc[u] # "idle")
    /\ UNCHANGED <<nodeVars, mrcur, tv, mrret, old_node, split, pre, hist>>

\* line 307: the lock_guard on the tree latch
TreeLock(t) ==
    /\ pc[t] = "tree_lock" /\ Running
    /\ tlatch = 0
    /\ tlatch' = t
    /\ pc' = [pc EXCEPT ![t] = "new_root"]
    /\ UNCHANGED <<nodes, nalloc, min_order, root, key, current, anc_stack, mrcur,
                   tv, mrret, old_node, split, ops, histVars>>

\* line 308: root_ = new Node(min_order_)
NewRoot(t) ==
    /\ pc[t] = "new_root" /\ Running
    /\ nalloc < MaxNodes
    /\ nalloc' = nalloc + 1
    /\ nodes' = [nodes EXCEPT ![nalloc + 1] = NewNode]
    /\ root' = nalloc + 1
    /\ pc' = [pc EXCEPT ![t] = "init_root"]
    /\ UNCHANGED <<min_order, tlatch, key, current, anc_stack, mrcur, tv, mrret,
                   old_node, split, ops, histVars>>

\* lines 309-313: root_->SetKeys({key}); root_->SetRoot(true); return true
InitRoot(t) ==
    /\ pc[t] = "init_root" /\ Running
    /\ LET nds == [nodes EXCEPT ![root].keys = <<key[t]>>, ![root].root = TRUE] IN
       /\ nodes' = nds
       /\ tlatch' = 0
       /\ Finish(t, "true", "first", nds, 0)
    /\ UNCHANGED <<nalloc, min_order, root>>

\* lines 317-323: one test of the descent loop and, on an internal node, its body
Descend(t) ==
    /\ pc[t] = "descend" /\ Running
    /\ IF current[t] = Null
       THEN Stop(t)
       ELSE IF nodes[current[t]].leaf
       THEN /\ pc' = [pc EXCEPT ![t] = "mr_latch"]
            /\ mrcur' = [mrcur EXCEPT ![t] = current[t]]
            /\ mrret' = [mrret EXCEPT ![t] = "top"]
            /\ UNCHANGED <<nodeVars, key, current, anc_stack, tv, old_node, split,
                           ops, histVars>>
       ELSE \E c \in ScannodeOut(current[t], key[t]) :
              IF c = UB
              THEN Stop(t)
              ELSE /\ current' = [current EXCEPT ![t] = c]
                   /\ anc_stack' = [anc_stack EXCEPT ![t] =
                          IF c # nodes[current[t]].right
                          THEN Append(@, current[t]) ELSE @]
                   /\ UNCHANGED <<nodeVars, pc, key, mrcur, tv, mrret, old_node,
                                  split, ops, histVars>>

\* MoveRight returns node r to its caller (line 251)
MoveRightReturn(t, r) ==
    /\ mrcur' = [mrcur EXCEPT ![t] = Null]
    /\ tv' = [tv EXCEPT ![t] = Null]
    /\ IF mrret[t] = "top"
       THEN /\ current' = [current EXCEPT ![t] = r]
            /\ pc' = [pc EXCEPT ![t] = "check_dup"]
       ELSE /\ UNCHANGED current
            /\ pc' = [pc EXCEPT ![t] = "old_unlatch"]

\* lines 234-236: the null test and current->Latch()
MRLatch(t) ==
    /\ pc[t] = "mr_latch" /\ Running
    /\ IF mrcur[t] = Null
       THEN /\ MoveRightReturn(t, Null)
            /\ UNCHANGED <<nodeVars, key, anc_stack, mrret, old_node,
                           split, ops, histVars>>
       ELSE /\ nodes[mrcur[t]].latch \in {0, t}
            /\ nodes' = [nodes EXCEPT ![mrcur[t]].latch = t]
            /\ \E o \in LockOut(mrcur[t], t, "mr_scan") : pc' = [pc EXCEPT ![t] = o]
            /\ UNCHANGED <<nalloc, min_order, root, tlatch, key, current, anc_stack,
                           mrcur, tv, mrret, old_node, split, ops, histVars>>

\* line 238: t = current->Scannode(key)
MRScan(t) ==
    /\ pc[t] = "mr_scan" /\ Running
    /\ \E c \in ScannodeOut(mrcur[t], key[t]) :
         IF c = UB
         THEN Stop(t)
         ELSE /\ tv' = [tv EXCEPT ![t] = c]
              /\ pc' = [pc EXCEPT ![t] = "mr_loop"]
              /\ UNCHANGED <<nodeVars, key, current, anc_stack, mrcur, mrret,
                             old_node, split, ops, histVars>>

\* lines 243-247: the loop test and target->Latch(); line 251 when it fails
MRLoop(t) ==
    /\ pc[t] = "mr_loop" /\ Running
    /\ IF tv[t] = nodes[mrcur[t]].right /\ nodes[mrcur[t]].right # Null
       THEN /\ nodes[tv[t]].latch \in {0, t}
            /\ nodes' = [nodes EXCEPT ![tv[t]].latch = t]
            /\ \E o \in LockOut(tv[t], t, "mr_handoff") : pc' = [pc EXCEPT ![t] = o]
            /\ UNCHANGED <<nalloc, min_order, root, tlatch, key, current, anc_stack,
                           mrcur, tv, mrret, old_node, split, ops, histVars>>
       ELSE /\ MoveRightReturn(t, mrcur[t])
            /\ UNCHANGED <<nodeVars, key, anc_stack, mrret, old_node,
                           split, ops, histVars>>

\* lines 248-249: current->Unlatch(); current = target
MRHandoff(t) ==
    /\ pc[t] = "mr_handoff" /\ Running
    /\ nodes' = Unlatched(nodes, mrcur[t])
    /\ mrcur' = [mrcur EXCEPT ![t] = tv[t]]
    /\ pc' = [pc EXCEPT ![t] = "mr_loop"]
    /\ UNCHANGED <<nalloc, min_order, root, tlatch, key, current, anc_stack, tv,
                   mrret, old_node, split, ops, histVars>>

\* lines 326-332: the duplicate test on the latched node
CheckDup(t) ==
    /\ pc[t] = "check_dup" /\ Running
    /\ IF current[t] = Null
       THEN Stop(t)
       ELSE \E c \in ContainsOut(nodes[current[t]].keys, key[t]) :
              IF c = "crash" THEN Stop(t)
              ELSE IF c = "true"
              THEN /\ Finish(t, "false", "dup", nodes, tlatch)
                   /\ UNCHANGED nodeVars
              ELSE /\ pc' = [pc EXCEPT ![t] = "ins_safe"]
                   /\ UNCHANGED <<nodeVars, key, current, anc_stack, mrcur, tv, mrret,
                                  old_node, split, ops, histVars>>

\* lines 341-346: the safe node takes the key; otherwise on to Split
InsSafe(t) ==
    /\ pc[t] = "ins_safe" /\ Running
    /\ IF current[t] = Null
       THEN Stop(t)
       ELSE IF IsSafe(nodes[current[t]].keys, min_order)
       THEN \E ks \in InsertSafeOut(nodes[current[t]].keys, min_order, key[t]) :
              IF ks = Crash THEN Stop(t)
              ELSE LET nds == Unlatched([nodes EXCEPT ![current[t]].keys = ks],
                                        current[t]) IN
                   /\ nodes' = nds
                   /\ Finish(t, "true", "safe", nds, tlatch)
                   /\ UNCHANGED <<nalloc, min_order, root, tlatch>>
       ELSE /\ pc' = [pc EXCEPT ![t] = "split_lock"]
            /\ UNCHANGED <<nodeVars, key, current, anc_stack, mrcur, tv, mrret,
                           old_node, split, ops, histVars>>

\* line 148: the lock_guard of Split on the node's own latch
SplitLock(t) ==
    /\ pc[t] = "split_lock" /\ Running
    /\ nodes[current[t]].latch \in {0, t}
    /\ nodes' = [nodes EXCEPT ![current[t]].latch = t]
    /\ \E o \in LockOut(current[t], t, "split_body") : pc' = [pc EXCEPT ![t] = o]
    /\ UNCHANGED <<nalloc, min_order, root, tlatch, key, current, anc_stack,
                   mrcur, tv, mrret, old_node, split, ops, histVars>>

\* lines 150-184 and 347-348: the body of Split, then split->HasRoot()
SplitBody(t) ==
    /\ pc[t] = "split_body" /\ Running
    /\ LET n == current[t]
           nd == nodes[n]
           nr == nalloc + 1
           rt == nalloc + 2
       IN /\ nalloc + (IF nd.root THEN 2 ELSE 1) <= MaxNodes
          /\ \E p \in PromotedOut(SplitVec(nd.keys)[1]) :
               IF p = UB
               THEN Stop(t)
               ELSE /\ nodes' = SplitHeap(nodes, n, nr, rt, p)
                    /\ nalloc' = nalloc + (IF nd.root THEN 2 ELSE 1)
                    /\ split' = [split EXCEPT ![t] =
                          [left |-> n, right |-> nr,
                           new_root |-> IF nd.root THEN rt ELSE Null,
                           promoted_key |-> p]]
                    /\ pre' = [pre EXCEPT ![t] = nd]
                    /\ pc' = [pc EXCEPT ![t] =
                          IF nd.root THEN "root_lock" ELSE "pop_anc"]
                    /\ UNCHANGED <<min_order, root, tlatch, key, current, anc_stack,
                                   mrcur, tv, mrret, old_node, ops, before, hist,
                                   overlap>>

\* line 349: the lock_guard on the tree latch
RootLock(t) ==
    /\ pc[t] = "root_lock" /\ Running
    /\ tlatch = 0
    /\ tlatch' = t
    /\ pc' = [pc EXCEPT ![t] = "root_swap"]
    /\ UNCHANGED <<nodes, nalloc, min_order, root, key, current, anc_stack, mrcur,
                   tv, mrret, old_node, split, ops, histVars>>

\* lines 350-351: root_ = split->GetRoot(); return true
RootSwap(t) ==
    /\ pc[t] = "root_swap" /\ Running
    /\ root' = split[t].new_root
    /\ tlatch' = 0
    /\ Finish(t, "true", "rootsplit", nodes, 0)
    /\ UNCHANGED <<nodes, nalloc, min_order>>

\* lines 353-355: old_node = current; current = anc_stack.pop().  top/pop on
\* an empty stack is undefined.
PopAnc(t) ==
    /\ pc[t] = "pop_anc" /\ Running
    /\ \E c \in (IF anc_stack[t] = <<>> THEN GarbagePtr \cup {UB}
                  ELSE {anc_stack[t][Len(anc_stack[t])]}) :
         IF c = UB
         THEN Stop(t)
         ELSE /\ old_node' = [old_node EXCEPT ![t] = current[t]]
              /\ current' = [current EXCEPT ![t] = c]
              /\ anc_stack' = [anc_stack EXCEPT ![t] =
                     IF @ = <<>> THEN @ ELSE SubSeq(@, 1, Len(@) - 1)]
              /\ pc' = [pc EXCEPT ![t] = "anc_latch"]
              /\ UNCHANGED <<nodeVars, key, mrcur, tv, mrret, split, ops, histVars>>

\* lines 356-357: current->Latch(), then the call of MoveRight(current, key)
AncLatch(t) ==
    /\ pc[t] = "anc_latch" /\ Running
    /\ IF current[t] = Null
       THEN Stop(t)
       ELSE /\ nodes[current[t]].latch \in {0, t}
            /\ nodes' = [nodes EXCEPT ![current[t]].latch = t]
            /\ \E o \in LockOut(current[t], t, "mr_latch") : pc' = [pc EXCEPT ![t] = o]
            /\ mrcur' = [mrcur EXCEPT ![t] = current[t]]
            /\ mrret' = [mrret EXCEPT ![t] = "rec"]
            /\ UNCHANGED <<nalloc, min_order, root, tlatch, key, current, anc_stack,
                           tv, old_node, split, ops, histVars>>

\* lines 358-359: old_node->Unlatch(); return Insert(current, key, val, anc_stack)
OldUnlatch(t) ==
    /\ pc[t] = "old_unlatch" /\ Running
    /\ nodes' = Unlatched(nodes, old_node[t])
    /\ pc' = [pc EXCEPT ![t] = "ins_safe"]
    /\ UNCHANGED <<nalloc, min_order, root, tlatch, key, current, anc_stack, mrcur,
                   tv, mrret, old_node, split, ops, histVars>>

Next ==
    \E t \in Threads :
        \/ \E k \in Keys : Start(t, k)
        \/ TreeLock(t)
        \/ NewRoot(t)
        \/ InitRoot(t)
        \/ Descend(t)
        \/ MRLatch(t)
        \/ MRScan(t)
        \/ MRLoop(t)
        \/ MRHandoff(t)
        \/ CheckDup(t)
        \/ InsSafe(t)
        \/ SplitLock(t)
        \/ SplitBody(t)
        \/ RootLock(t)
        \/ RootSwap(t)
        \/ PopAnc(t)
        \/ AncLatch(t)
        \/ OldUnlatch(t)

Spec == Init /\ [][Next]_vars

\* ------------------------------------------------- one node, any contents
\* A Node built through its public constructors and setters (lines 42-57,
\* 94-119) with any sorted keys, on which thread 1 runs the recursive Insert
\* from its duplicate test (pc "check_dup") or from its start (pc "ins_safe"),
\* or calls Split (pc "split_lock").

NodeKeys == 1..(MaxLen + 1)

SortedSeqs ==
    { ks \in UNION { [1..m -> NodeKeys] : m \in 0..MaxLen } : IsSorted(ks) }

\* the handles of the children of a node built by hand
Handles(m) == [i \in 1..m |-> MaxNodes + i]

InitNode ==
    /\ \E ks \in SortedSeqs, lf \in BOOLEAN, rf \in BOOLEAN,
          rl \in {Null, 2}, la \in {0, 1} :
         nodes = [n \in NodeIds |->
                    IF n = 1
                    THEN [keys |-> ks,
                          children |-> IF lf THEN <<>> ELSE Handles(Len(ks) + 1),
                          leaf |-> lf, root |-> rf, right |-> rl, latch |-> la]
                    ELSE NewNode]
    /\ nalloc = 2
    /\ min_order \in Orders
    /\ root = 1
    /\ tlatch = 0
    /\ pc \in { [t \in Threads |-> IF t = 1 THEN p ELSE "idle"] :
                 p \in {"check_dup", "ins_safe", "split_lock"} }
    /\ key \in { [t \in Threads |-> IF t = 1 THEN k ELSE 0] : k \in NodeKeys }
    /\ current = [t \in Threads |-> IF t = 1 THEN 1 ELSE Null]
    /\ anc_stack = [t \in Threads |-> <<>>]
    /\ mrcur = [t \in Threads |-> Null]
    /\ tv = [t \in Threads |-> Null]
    /\ mrret = [t \in Threads |-> "top"]
    /\ old_node = [t \in Threads |-> Null]
    /\ split = [t \in Threads |-> NoSplit]
    /\ ops = MaxOps
    /\ pre = [t \in Threads |-> NewNode]
    /\ before = [t \in Threads |-> IF t = 1 THEN KeysOf ELSE NoKeys]
    /\ hist = <<>>
    /\ overlap = FALSE

NextNode ==
    \/ CheckDup(1)
    \/ InsSafe(1)
    \/ SplitLock(1)
    \/ SplitBody(1)

SpecNode == InitNode /\ [][NextNode]_vars


\* ------------------------------------------------------------ observations

\* the keys whose Insert returned true, and the keys Insert was called with
Inserted == { hist[i].key : i \in { j \in 1..Len(hist) : hist[j].ret = "true" } }

Attempted == { hist[i].key : i \in 1..Len(hist) }

\* the nodes a node refers to: its children and its right link
Succ(n) ==
    ({ nodes[n].children[i] : i \in 1..Len(nodes[n].children) }
        \cup {nodes[n].right}) \cap Allocated

RECURSIVE ReachN(_, _)
ReachN(S, fuel) ==
    IF fuel = 0 THEN S
    ELSE ReachN(S \cup UNION { Succ(n) : n \in S }, fuel - 1)

\* the nodes reachable from the root by child or right-link references
Reach == IF root = Null THEN {} ELSE ReachN({root}, MaxNodes)

\* MoveRight from leaf n (lines 233-252), then Contains (line 326)
LeafLookup(n, k) ==
    UNION { IF c = UB THEN {"crash"}
            ELSE LET final == IF c = nodes[n].right /\ c # Null THEN c ELSE n
                 IN ContainsOut(nodes[final].keys, k) :
            c \in ScannodeOut(n, k) }

\* a lookup as Insert performs it: the descent by Scannode of lines 317-323,
\* MoveRight on the leaf, Contains on the node MoveRight returns
RECURSIVE LookupFrom(_, _, _)
LookupFrom(n, k, fuel) ==
    IF n = UB \/ n = Null \/ fuel = 0 THEN {"crash"}
    ELSE IF nodes[n].leaf THEN LeafLookup(n, k)
    ELSE UNION { LookupFrom(c, k, fuel - 1) : c \in ScannodeOut(n, k) }

LookupOut(k) == IF root = Null THEN {"false"} ELSE LookupFrom(root, k, MaxNodes)

\* no search for k in a node of the tree reads keys_ out of bounds
FindDefined(k) == \A n \in Reach : FindIndex(nodes[n].keys, k) # UB

\* the thread has come back from Split and not yet moved on
AfterSplit(t) == pc[t] \in {"root_lock", "pop_anc"}

\* the node the thread is about to lock, or Null
WaitsFor(t) ==
    IF pc[t] \in {"split_lock", "anc_latch"} THEN current[t]
    ELSE IF pc[t] = "mr_latch" THEN mrcur[t]
    ELSE IF pc[t] = "mr_loop" /\ tv[t] # Null /\ tv[t] = nodes[mrcur[t]].right
         THEN tv[t]
    ELSE Null

\* ------------------------------------------------------------------ claims

\* C1. Round-trip membership: after sequential Insert calls on an empty tree
\* have all returned, every key whose Insert returned true can be found by a
\* lookup from the root, and no key never passed to Insert can be found
\* (where the searches for such a key stay within keys_).
C1_RoundTripMembership ==
    (Quiescent /\ ~overlap) =>
        \A k \in Keys :
            /\ k \in Inserted => "true" \in LookupOut(k)
            /\ (k \notin Attempted /\ FindDefined(k)) => "true" \notin LookupOut(k)

\* C2. Concurrent insert safety: when the threads have inserted distinct keys
\* and all calls have returned, every key whose Insert returned true is found
\* by a lookup from the root: no insert that returned true is lost.
C2_ConcurrentInsertSafety ==
    (/\ Quiescent
     /\ \A i, j \in 1..Len(hist) : i # j => hist[i].key # hist[j].key)
    => \A k \in Inserted : "true" \in LookupOut(k)

\* C3. Duplicate insert: of two calls Insert(k) in sequence, the first
\* returns true and the second returns false, and no node's keys differ
\* before and after the second call.  (Stated for a k above every key passed
\* to Insert before, so that no search for k reads keys_ out of bounds.)
C3_DuplicateInsert ==
    ~overlap =>
        \A i \in 1..(Len(hist) - 1) :
            (/\ hist[i].key = hist[i + 1].key
             /\ \A j \in 1..(i - 1) : hist[j].key < hist[i].key)
            => /\ hist[i].ret = "true"
               /\ hist[i + 1].ret = "false"
               /\ hist[i + 1].same

\* C4. Every Insert call returns: no thread blocks for ever on a latch.  A
\* thread that goes to lock a latch it holds itself waits for ever, so no
\* thread is ever about to lock a latch it holds, and none is blocked so.
C4_NoThreadWaitsOnOwnLatch ==
    \A t \in Threads :
        /\ pc[t] # "stuck"
        /\ WaitsFor(t) # Null => nodes[WaitsFor(t)].latch # t

\* C5. Single root: after any sequence of completed Insert calls on a
\* non-empty tree exactly one node has isRoot true, the node root_ refers to.
C5_SingleRoot ==
    (Quiescent /\ ~overlap /\ root # Null) =>
        { n \in Allocated : nodes[n].root } = {root}

\* C6. Sorted uniqueness: in every reachable state every node reachable from
\* the root that no thread has latched has strictly increasing keys.
C6_SortedUnique ==
    \A n \in Reach : nodes[n].latch = 0 => IsSorted(nodes[n].keys)

\* a node reachable from the root, unlatched, that Split has cut in two
C6_Witness ==
    \E n \in Reach :
        /\ nodes[n].latch = 0
        /\ nodes[n].right # Null
        /\ Len(nodes[n].keys) >= 1
        /\ nodes[n].right \in Reach /\ nodes[nodes[n].right].latch = 0

\* C7. Fanout: in every quiescent state reached by a sequence of Inserts every
\* node of the tree other than the root holds between order and 2*order keys.
C7_Fanout ==
    (Quiescent /\ ~overlap) =>
        \A n \in Reach \ {root} :
            /\ min_order <= Len(nodes[n].keys)
            /\ Len(nodes[n].keys) <= 2 * min_order

\* the calls so far are Insert(1), Insert(2), ... one after the other
ScenarioPrefix ==
    /\ ~overlap
    /\ \A i \in 1..Len(hist) : hist[i].key = i
    /\ \A t \in Threads : pc[t] # "idle" => key[t] = Len(hist) + 1

\* C8. A leaf is split only when it is full: with order 2 and the sequential
\* inserts 1, 2, 3, ... the root is the only node, a leaf holding the keys
\* inserted so far, for as long as these are at most 3; and no node is split
\* that holds fewer than 2*order - 1 keys.
C8_SplitOnlyWhenFull ==
    (ScenarioPrefix /\ min_order = 2) =>
        /\ (Quiescent /\ Len(hist) \in 1..3) =>
              /\ nalloc = 1 /\ root = 1
              /\ nodes[1].leaf
              /\ nodes[1].keys = [i \in 1..Len(hist) |-> i]
        /\ \A t \in Threads :
              AfterSplit(t) => Len(pre[t].keys) >= 2 * min_order - 1

\* C9. No latch leak: a thread that is not inside Insert (it has not called
\* it, or its call has returned) holds no node latch and no tree latch.
C9_NoLatchLeak ==
    \A t \in Threads : pc[t] = "idle" => ~Held(nodes, tlatch, t)

\* C10. Split correctness: Split of a node with n >= 1 sorted keys leaves the
\* node the first ceil(n/2) keys and gives the new right sibling the rest;
\* every left key is less than every right key, the promoted key is the last
\* left key, and the sibling has the node's leaf flag.
C10_SplitCorrect ==
    \A t \in Threads :
        (AfterSplit(t) /\ Len(pre[t].keys) >= 1) =>
            LET old == pre[t].keys
                n == Len(old)
                h == (n + 1) \div 2
                lk == nodes[split[t].left].keys
                rk == nodes[split[t].right].keys
            IN /\ lk = SubSeq(old, 1, h)
               /\ rk = SubSeq(old, h + 1, n)
               /\ Len(lk) + Len(rk) = n
               /\ \A i \in 1..Len(lk), j \in 1..Len(rk) : lk[i] < rk[j]
               /\ split[t].promoted_key = lk[Len(lk)]
               /\ nodes[split[t].right].leaf = pre[t].leaf

\* Split has cut an internal node of three keys into two non-empty halves
C10_Witness ==
    \E t \in Threads :
        /\ AfterSplit(t)
        /\ Len(pre[t].keys) = 3
        /\ ~pre[t].leaf
        /\ Len(nodes[split[t].left].keys) = 2
        /\ Len(nodes[split[t].right].keys) = 1

\* C11. Children count: Split of an internal node that has n >= 1 keys and
\* one child more than it has keys cuts the children where it cuts the keys, so that each
\* half again has one child more than it has keys.
C11_ChildrenCount ==
    \A t \in Threads :
        (/\ AfterSplit(t)
         /\ ~pre[t].leaf
         /\ Len(pre[t].keys) >= 1
         /\ Len(pre[t].children) = Len(pre[t].keys) + 1)
        => \A n \in {split[t].left, split[t].right} :
              Len(nodes[n].children) = Len(nodes[n].keys) + 1

\* the keys of node n as a set
KeySet(n) == { nodes[n].keys[i] : i \in 1..Len(nodes[n].keys) }

\* the thread is in the recursive call of line 359, on the popped parent
InRecursion(t) == pc[t] = "ins_safe" /\ mrret[t] = "rec"

\* C12. Non-root split propagation: when Insert has split a node that is not
\* the root, the key it was called with is in one of the two halves, and the
\* key it goes on to insert into the parent is the promoted key.
C12_PromotedKeyToParent ==
    \A t \in Threads :
        /\ pc[t] = "pop_anc" =>
              key[t] \in KeySet(split[t].left) \cup KeySet(split[t].right)
        /\ InRecursion(t) => key[t] = split[t].promoted_key

\* C13. Root split postcondition: when Insert returns after a split of the
\* root, root_ refers to the new node of the split, which holds the promoted
\* key alone and two children, the split node and then its new sibling, has
\* its root flag set and is an internal node (its leaf flag is false).
C13_RootSplitPost ==
    [][\A t \in Threads :
         (pc[t] = "root_swap" /\ pc'[t] = "idle") =>
            LET r == nodes'[root'] IN
            /\ root' = split[t].new_root
            /\ r.keys = <<split[t].promoted_key>>
            /\ r.children = <<split[t].left, split[t].right>>
            /\ r.root
            /\ ~r.leaf]_vars

\* --------------------------------------------- one level, MoveRight on it
\* Nodes 1, 2, 3 built through the public constructors and setters and
\* joined by SetRight into a level 1 -> 2 -> 3 (or a shorter one); thread 1
\* calls the public MoveRight(node, key) or Split() on a node of the level.

ChainLens == 1..3

\* every key of ks is below every key of ls
Below(ks, ls) == \A i \in 1..Len(ks), j \in 1..Len(ls) : ks[i] < ls[j]

InitMove ==
    /\ \E len \in ChainLens, k1 \in SortedSeqs, k2 \in SortedSeqs, k3 \in SortedSeqs,
          lf \in BOOLEAN, la \in {0, 1}, st \in ChainLens,
          p \in {"mr_latch", "split_lock"} :
         /\ st <= len
         /\ Below(k1, k2) /\ Below(k2, k3) /\ Below(k1, k3)
         /\ len < 3 => k3 = <<>>
         /\ len < 2 => k2 = <<>>
         /\ nodes = [n \in NodeIds |->
                       IF n <= len
                       THEN LET ks == IF n = 1 THEN k1 ELSE IF n = 2 THEN k2 ELSE k3 IN
                            [keys |-> ks,
                             children |-> IF lf THEN <<>> ELSE Handles(Len(ks) + 1),
                             leaf |-> lf, root |-> FALSE,
                             right |-> IF n < len THEN n + 1 ELSE Null,
                             latch |-> IF n = st THEN la ELSE 0]
                       ELSE NewNode]
         /\ nalloc = len
         /\ pc = [t \in Threads |-> IF t = 1 THEN p ELSE "idle"]
         /\ current = [t \in Threads |-> IF t = 1 THEN st ELSE Null]
         /\ mrcur = [t \in Threads |-> IF t = 1 /\ p = "mr_latch" THEN st ELSE Null]
    /\ min_order = DefaultOrder
    /\ root = 1
    /\ tlatch = 0
    /\ key \in { [t \in Threads |-> IF t = 1 THEN k ELSE 0] : k \in NodeKeys }
    /\ anc_stack = [t \in Threads |-> <<>>]
    /\ tv = [t \in Threads |-> Null]
    /\ mrret = [t \in Threads |-> "top"]
    /\ old_node = [t \in Threads |-> Null]
    /\ split = [t \in Threads |-> NoSplit]
    /\ ops = MaxOps
    /\ pre = [t \in Threads |-> NewNode]
    /\ before = [t \in Threads |-> IF t = 1 THEN KeysOf ELSE NoKeys]
    /\ hist = <<>>
    /\ overlap = FALSE

NextMove ==
    \/ MRLatch(1)
    \/ MRScan(1)
    \/ MRLoop(1)
    \/ MRHandoff(1)
    \/ SplitLock(1)
    \/ SplitBody(1)

SpecMove == InitMove /\ [][NextMove]_vars

\* MoveRight has returned to Tree::Insert (line 324)
MoveRightReturned(t) == pc[t] = "check_dup" /\ current[t] # Null

\* the nodes whose latch thread t holds
LatchedBy(t) == { n \in NodeIds : nodes[n].latch = t }

\* C14. MoveRight postcondition: when MoveRight returns, the thread holds the
\* latch of the returned node and of no other node, and the returned node has
\* no right link or Scannode(key) on it is not its right link.  (Stated for
\* the keys whose search stays within keys_ in every node of the level.)
C14_MoveRightPost ==
    \A t \in Threads :
        (MoveRightReturned(t) /\ FindDefined(key[t])) =>
            LET r == current[t] IN
            /\ LatchedBy(t) = {r}
            /\ \/ nodes[r].right = Null
               \/ ScannodeOut(r, key[t]) # {nodes[r].right}

\* the nodes met by following right links from node n, n included
RECURSIVE ChainN(_, _)
ChainN(n, fuel) ==
    IF n = Null \/ n \notin Allocated \/ fuel = 0 THEN {}
    ELSE {n} \cup ChainN(nodes[n].right, fuel - 1)

Chain(n) == ChainN(n, MaxNodes)

\* along every chain of right links the keys go up from node to node
LevelOrdered ==
    \A n \in Allocated : \A m \in Chain(n) \ {n} :
        Below(nodes[n].keys, nodes[m].keys)

\* C15. Right-link chain: Split of node n with right link r makes the new
\* sibling n's right link and r the sibling's right link; a right link once
\* set is never absent again; and the nodes met by following right links stay
\* in increasing key order, none of them dropped from the chain.
C15_RightLinkChain ==
    [][Running' =>
         /\ \A t \in Threads :
               (pc[t] = "split_body" /\ pc'[t] \in {"root_lock", "pop_anc"}) =>
                  /\ nodes'[current[t]].right = split'[t].right
                  /\ nodes'[split'[t].right].right = nodes[current[t]].right
         /\ \A n \in Allocated :
               /\ nodes[n].right # Null => nodes'[n].right # Null
               /\ Chain(n) \subseteq Chain(n)'
         /\ LevelOrdered => LevelOrdered']_vars

\* Split has put a sibling with keys between a node and its right neighbour,
\* which has keys too
C15_Witness ==
    \E t \in Threads :
        /\ pc[t] = "pop_anc"
        /\ pre[t].right # Null
        /\ nodes[split[t].left].right = split[t].right
        /\ nodes[split[t].right].right = pre[t].right
        /\ nodes[split[t].right].keys # <<>>
        /\ nodes[pre[t].right].keys # <<>>

\* C16. Latch coupling bound: no thread holds more than two node latches, and
\* in the handoff of a move to the right the thread holds the sibling's latch
\* before it lets go of the predecessor's.
C16_LatchCouplingBound ==
    \A t \in Threads :
        /\ Cardinality(LatchedBy(t)) <= 2
        /\ pc[t] = "mr_handoff" => {mrcur[t], tv[t]} \subseteq LatchedBy(t)

\* the thread that takes the step
Stepped(t) == pc'[t] # pc[t]

\* the step writes keys_, children_ or right_link_ of node n
Written(n) ==
    \/ nodes'[n].keys # nodes[n].keys
    \/ nodes'[n].children # nodes[n].children
    \/ nodes'[n].right # nodes[n].right

\* C17. Mutual exclusion of mutation: a step that writes the keys, children
\* or right link of an existing node is taken by the thread that holds the
\* node's latch, and a step that writes root_ by the thread that holds the
\* tree latch.
C17_MutationUnderLatch ==
    [][Running' =>
         /\ \A n \in Allocated :
               Written(n) => \E t \in Threads : Stepped(t) /\ nodes[n].latch = t
         /\ root' # root => \E t \in Threads : Stepped(t) /\ tlatch = t]_vars

\* C18. The ancestor stack never underflows: whenever the recursive Insert
\* has split a node and the split made no new root, the stack it goes on to
\* pop is not empty.
C18_AncStackNonEmpty ==
    \A t \in Threads : pc[t] = "pop_anc" => anc_stack[t] # <<>>

\* the first index (from 0) whose key is at least k, Len(ks) when there is none
FirstAtLeast(ks, k) ==
    LET S == { i \in 0..(Len(ks) - 1) : ks[i + 1] >= k } IN
    IF S = {} THEN Len(ks) ELSE CHOOSE i \in S : \A j \in S : i <= j

\* C19. FindIndex result: on the strictly increasing keys of the node that
\* Contains is called on, FindIndex reads keys_ within its bounds only and
\* returns the first index whose key is at least the key, or the number of
\* keys when the key is above them all.
C19_FindIndexResult ==
    \A t \in Threads :
        (/\ pc[t] = "check_dup"
         /\ current[t] # Null
         /\ IsSorted(nodes[current[t]].keys))
        => FindIndex(nodes[current[t]].keys, key[t])
              = FirstAtLeast(nodes[current[t]].keys, key[t])

\* C20. First-insert atomicity: the empty-tree branch installs its fresh root
\* only in a tree that has none, so a root that one Insert has installed is
\* never replaced by the fresh root of another.
C20_FirstInsertAtomic ==
    [][\A t \in Threads :
         (pc[t] = "new_root" /\ pc'[t] = "init_root") => root = Null]_vars

====
